---- MODULE Spec2Model ----
(***************************************************************************)
(* Model of the two pipelines of the repository:                           *)
(*   - "Transformacion a csv.py"  (src/unnamed/part_000): the spreadsheet  *)
(*     to delimited-text converter;                                        *)
(*   - "limpieza-union-datos.py": the clean-and-merge pipeline.            *)
(*                                                                         *)
(* Text is modelled as a sequence of one-character strings, so that the    *)
(* regular-expression steps of limpiar_nombre_columna are computed         *)
(* character by character.  A DataFrame is a record                        *)
(*   [columns |-> sequence of labels, rows |-> sequence of rows]           *)
(* where a row is a sequence of cells aligned with the columns.            *)
(***************************************************************************)
EXTENDS Integers, Sequences, FiniteSets, TLC

VARIABLES
    \* limpiar_nombre_columna, applied once and then to its own result
    columna, nombre1, nombre2, pcN,
    \* limpiar_datos: what the caller's DataFrame held at the call, what the
    \* caller's object holds now, what the call returned, whether the
    \* except branch ran and whether an exception left the function
    dfEntrada, dfLlamador, dfRetorno, errorL, escapaL, pcL,
    \* combinar_y_limpiar_archivos_csv: the files of the directory in the
    \* order glob yields them, the parameter nombre_archivo_salida, the
    \* locals archivos_csv, dfs, df_combinado, df_valle and timestamp, the
    \* position in the loop, the files written so far, the log lines and
    \* whether an exception left the function
    directorio, nombre_archivo_salida, archivos_csv, idx, dfs, df_combinado,
    df_valle, timestamp, escritos, registro, escapaM, pcM,
    \* procesar_directorio: its parameter, the process's working directory,
    \* whether xlrd and openpyxl can be imported, the local archivos_excel,
    \* the position in the loop, the two tallies, what each call of
    \* convertir_excel_a_csv returned and the files written
    dirExcel, cwd, dependencias, archivos_excel, idxX, archivos_procesados,
    archivos_fallidos, retornos, sistema, pcX

normVars == <<columna, nombre1, nombre2, pcN>>
cleanVars == <<dfEntrada, dfLlamador, dfRetorno, errorL, escapaL, pcL>>
mergeVars == <<directorio, nombre_archivo_salida, archivos_csv, idx, dfs,
               df_combinado, df_valle, timestamp, escritos, registro,
               escapaM, pcM>>
convVars == <<dirExcel, cwd, dependencias, archivos_excel, idxX,
              archivos_procesados, archivos_fallidos, retornos, sistema, pcX>>
vars == <<normVars, cleanVars, mergeVars, convVars>>

(***************************************************************************)
(* Bounds of the model.                                                    *)
(***************************************************************************)
\* longest column name given to limpiar_nombre_columna on its own
MaxLen == 4
\* most rows of one table
MaxRows == 2
\* most files in the directory
MaxFiles == 2
\* most spreadsheets in the directory
MaxExcel == 2

(***************************************************************************)
(* Text helpers.                                                           *)
(***************************************************************************)
Letters == {"a","b","c","d","e","f","g","h","i","j","k","l","m",
            "n","o","p","q","r","s","t","u","v","w","x","y","z"}
Digits == {"0","1","2","3","4","5","6","7","8","9"}
\* the character class [a-z0-9] of the first re.sub
Alnum == Letters \cup Digits

\* str.lower(), on the characters the model uses
UpperChars == <<"A","B","C","D","E","F","G","H","I","J","K","L","M","N",
                "O","P","Q","R","S","T","U","V","W","X","Y","Z","Ñ">>
LowerChars == <<"a","b","c","d","e","f","g","h","i","j","k","l","m","n",
                "o","p","q","r","s","t","u","v","w","x","y","z","ñ">>
LowerChar(c) ==
    IF \E i \in 1..Len(UpperChars) : UpperChars[i] = c
    THEN LowerChars[CHOOSE i \in 1..Len(UpperChars) : UpperChars[i] = c]
    ELSE c
Lower(s) == [i \in 1..Len(s) |-> LowerChar(s[i])]

\* the text left after the leading run of characters outside [a-z0-9]
RECURSIVE SkipNonAlnum(_)
SkipNonAlnum(s) ==
    IF s = <<>> \/ Head(s) \in Alnum THEN s ELSE SkipNonAlnum(Tail(s))

\* re.sub(r'[^a-z0-9]+', '_', s): leftmost, non-overlapping, greedy
RECURSIVE SubNonAlnum(_)
SubNonAlnum(s) ==
    IF s = <<>> THEN <<>>
    ELSE IF Head(s) \in Alnum THEN <<Head(s)>> \o SubNonAlnum(Tail(s))
    ELSE <<"_">> \o SubNonAlnum(SkipNonAlnum(Tail(s)))

RECURSIVE SkipUnderscores(_)
SkipUnderscores(s) ==
    IF s = <<>> \/ Head(s) # "_" THEN s ELSE SkipUnderscores(Tail(s))

\* re.sub(r'_+', '_', s)
RECURSIVE SubUnderscores(_)
SubUnderscores(s) ==
    IF s = <<>> THEN <<>>
    ELSE IF Head(s) # "_" THEN <<Head(s)>> \o SubUnderscores(Tail(s))
    ELSE <<"_">> \o SubUnderscores(SkipUnderscores(Tail(s)))

RECURSIVE RStripUnderscores(_)
RStripUnderscores(s) ==
    IF s = <<>> \/ s[Len(s)] # "_" THEN s
    ELSE RStripUnderscores(SubSeq(s, 1, Len(s) - 1))

\* s.strip('_')
StripUnderscores(s) == RStripUnderscores(SkipUnderscores(s))

\* a plausible slip: the trim is done first, on the raw text
limpiar_nombre_columna_strip_first(col) ==
    SubUnderscores(SubNonAlnum(StripUnderscores(Lower(col))))

\* a plausible slip: the trim is left out
limpiar_nombre_columna_no_strip(col) ==
    SubUnderscores(SubNonAlnum(Lower(col)))

limpiar_nombre_columna(col) ==
    StripUnderscores(SubUnderscores(SubNonAlnum(Lower(col))))

(***************************************************************************)
(* Tables.  A cell is a record [k, n, s]: k is its kind ("num" a number,   *)
(* "txt" a text, "nan" a missing value, "date" a timestamp, "nat" a        *)
(* missing timestamp, "list" an unhashable Python list), n its number and  *)
(* s its text.                                                             *)
(***************************************************************************)
Num(n) == [k |-> "num", n |-> n, s |-> <<>>]
Txt(s) == [k |-> "txt", n |-> 0, s |-> s]
NaN == [k |-> "nan", n |-> 0, s |-> <<>>]
NaT == [k |-> "nat", n |-> 0, s |-> <<>>]
Lista == [k |-> "list", n |-> 0, s |-> <<>>]
IsNull(c) == c.k \in {"nan", "nat"}

NoDF == [columns |-> <<>>, rows |-> <<>>]

\* the position of a label among the columns, 0 when it is absent
ColIndex(df, label) ==
    IF \E j \in 1..Len(df.columns) : df.columns[j] = label
    THEN CHOOSE j \in 1..Len(df.columns) :
            /\ df.columns[j] = label
            /\ \A h \in 1..(j - 1) : df.columns[h] # label
    ELSE 0
HasColumn(df, label) == ColIndex(df, label) # 0

\* df[label] = value, for a scalar value
AsignarColumna(df, label, value) ==
    IF HasColumn(df, label)
    THEN [df EXCEPT !.rows =
            [i \in 1..Len(df.rows) |->
                [df.rows[i] EXCEPT ![ColIndex(df, label)] = value]]]
    ELSE [columns |-> Append(df.columns, label),
          rows |-> [i \in 1..Len(df.rows) |-> Append(df.rows[i], value)]]

\* 'fecha' in col
FechaTxt == <<"f","e","c","h","a">>
ContieneFecha(col) ==
    \E i \in 1..(Len(col) - Len(FechaTxt) + 1) :
        SubSeq(col, i, i + Len(FechaTxt) - 1) = FechaTxt

\* the texts of the model that pandas parses as a date
Fecha2021 == <<"2","0","2","1","-","0","3","-","0","1">>
FechasValidas == {Fecha2021}
\* pd.to_datetime(..., errors='coerce') on one cell
ToDatetime(c) ==
    CASE c.k = "txt" /\ c.s \in FechasValidas -> [k |-> "date", n |-> 0, s |-> c.s]
      [] c.k = "num" -> [k |-> "date", n |-> c.n, s |-> <<>>]
      [] c.k = "date" -> c
      [] OTHER -> NaT

\* df.select_dtypes(include=[np.number]): every cell a number or NaN
EsNumerica(df, j) == \A i \in 1..Len(df.rows) : df.rows[i][j].k \in {"num", "nan"}
\* df.select_dtypes(include=['object']): neither numeric nor datetime
EsTexto(df, j) ==
    /\ ~EsNumerica(df, j)
    /\ \E i \in 1..Len(df.rows) : df.rows[i][j].k \notin {"date", "nat"}

\* a plausible slip: the duplicates are counted but not dropped
DropDuplicates_none(rows) == [i \in 1..Len(rows) |-> i]

\* the scan of drop_duplicates from row n on, kept holding the indices of
\* the rows kept so far
RECURSIVE DropDuplicatesFrom(_, _, _)
DropDuplicatesFrom(rows, n, kept) ==
    IF n > Len(rows) THEN kept
    ELSE IF \E h \in 1..Len(kept) : rows[kept[h]] = rows[n]
         THEN DropDuplicatesFrom(rows, n + 1, kept)
         ELSE DropDuplicatesFrom(rows, n + 1, Append(kept, n))

\* df.drop_duplicates(): the indices of the rows kept, scanning from the
\* first row and keeping a row unless an equal row was already kept
DropDuplicates(rows) == DropDuplicatesFrom(rows, 1, <<>>)

NATxt == <<"N","/","A">>

\* line 40: df.columns = [limpiar_nombre_columna(col) for col in df.columns]
RenombrarColumnas(df) ==
    [df EXCEPT !.columns =
        [j \in 1..Len(df.columns) |-> limpiar_nombre_columna(df.columns[j])]]

\* the rows of df at the indices kept, in that order
TomarFilas(df, kept) ==
    [df EXCEPT !.rows = [h \in 1..Len(kept) |-> df.rows[kept[h]]]]

\* lines 50-55: the columns whose name contains 'fecha' are parsed as dates
ConvertirFechas(df) ==
    [df EXCEPT !.rows =
        [i \in 1..Len(df.rows) |-> [j \in 1..Len(df.columns) |->
            IF ContieneFecha(df.columns[j]) THEN ToDatetime(df.rows[i][j])
            ELSE df.rows[i][j]]]]

\* lines 58-59: fillna(0) on the numeric columns
RellenarNumericas(df) ==
    [df EXCEPT !.rows =
        [i \in 1..Len(df.rows) |-> [j \in 1..Len(df.columns) |->
            IF EsNumerica(df, j) /\ df.rows[i][j].k = "nan" THEN Num(0)
            ELSE df.rows[i][j]]]]

\* lines 62-63: fillna('N/A') on the object columns
RellenarTexto(df) ==
    [df EXCEPT !.rows =
        [i \in 1..Len(df.rows) |-> [j \in 1..Len(df.columns) |->
            IF EsTexto(df, j) /\ df.rows[i][j].k = "nan" THEN Txt(NATxt)
            ELSE df.rows[i][j]]]]

\* drop_duplicates hashes the cells: a list raises TypeError
Hashable(df) ==
    \A i \in 1..Len(df.rows) : \A j \in 1..Len(df.columns) :
        df.rows[i][j].k # "list"

\* lines 43-69, on the DataFrame whose columns were renamed and the
\* indices drop_duplicates keeps
LimpiarRenombrado(renombrado, kept) ==
    IF Hashable(renombrado)
    THEN [llamador |-> renombrado,
          retorno |-> RellenarTexto(RellenarNumericas(ConvertirFechas(
                          TomarFilas(renombrado, kept)))),
          error |-> FALSE,
          eliminadas |-> Len(renombrado.rows) - Len(kept)]
    ELSE [llamador |-> renombrado, retorno |-> renombrado, error |-> TRUE,
          eliminadas |-> 0]

\* limpiar_datos(df): [llamador |-> the caller's object after the call,
\* retorno |-> the DataFrame returned, error |-> whether the except branch
\* ran, eliminadas |-> the number of rows dropped as duplicates].  The
\* columns are renamed on the caller's object; drop_duplicates and the
\* steps after it work on a new object.
limpiar_datos(df) ==
    LimpiarRenombrado(RenombrarColumnas(df), DropDuplicates(df.rows))

CleanIdle ==
    /\ dfEntrada = NoDF /\ dfLlamador = NoDF /\ dfRetorno = NoDF
    /\ errorL = FALSE /\ escapaL = FALSE /\ pcL = "idle"

Ninguno == "<None>"
SinAsignar == "<unbound>"
MergeIdle ==
    /\ directorio = <<>> /\ nombre_archivo_salida = Ninguno
    /\ archivos_csv = <<>> /\ idx = 0 /\ dfs = <<>>
    /\ df_combinado = NoDF /\ df_valle = NoDF /\ timestamp = SinAsignar
    /\ escritos = <<>> /\ registro = <<>> /\ escapaM = FALSE /\ pcM = "idle"

ConvIdle ==
    /\ dirExcel = "" /\ cwd = "" /\ dependencias = TRUE
    /\ archivos_excel = <<>> /\ idxX = 0 /\ archivos_procesados = 0
    /\ archivos_fallidos = 0 /\ retornos = <<>> /\ sistema = {}
    /\ pcX = "idle"

(***************************************************************************)
(* Specification SpecNorm: limpiar_nombre_columna over every text of at    *)
(* most MaxLen characters of NormAlphabet, then over its own result.       *)
(***************************************************************************)
NormAlphabet == {"a", "B", "7", "_", " ", "ñ"}
RECURSIVE SeqsUpTo(_, _)
SeqsUpTo(A, n) ==
    IF n = 0 THEN {<<>>}
    ELSE LET shorter == SeqsUpTo(A, n - 1)
         IN  shorter \cup {Append(t, c) : t \in shorter, c \in A}

NormIdle ==
    /\ columna = <<>> /\ nombre1 = <<>> /\ nombre2 = <<>> /\ pcN = "idle"

NormInit ==
    /\ columna \in SeqsUpTo(NormAlphabet, MaxLen)
    /\ nombre1 = <<>>
    /\ nombre2 = <<>>
    /\ pcN = "start"

Normalizar ==
    /\ pcN = "start"
    /\ nombre1' = limpiar_nombre_columna(columna)
    /\ pcN' = "once"
    /\ UNCHANGED <<columna, nombre2>>

Renormalizar ==
    /\ pcN = "once"
    /\ nombre2' = limpiar_nombre_columna(nombre1)
    /\ pcN' = "twice"
    /\ UNCHANGED <<columna, nombre1>>

NormNext ==
    \/ Normalizar /\ UNCHANGED <<cleanVars, mergeVars, convVars>>
    \/ Renormalizar /\ UNCHANGED <<cleanVars, mergeVars, convVars>>

InitNorm == NormInit /\ CleanIdle /\ MergeIdle /\ ConvIdle
SpecNorm == InitNorm /\ [][NormNext]_vars

\* C9: limpiar_nombre_columna is idempotent: applied to its own result it
\* returns that result.
C9_Idempotent == pcN = "twice" => nombre2 = nombre1

\* C9 witness: a text that the function changes has been normalised twice.
C9_Witness == pcN = "twice" /\ nombre1 # columna /\ nombre1 # <<>>

\* the kept characters of the lowercased text, in order
KeptChars(s) == SelectSeq(Lower(s), LAMBDA c : c \in Alnum)
\* the number of maximal runs of characters outside [a-z0-9] of the
\* lowercased text that have a kept character on both sides
InnerRuns(s) ==
    LET l == Lower(s)
    IN  Cardinality({i \in 2..Len(l) :
            /\ l[i] \notin Alnum
            /\ l[i-1] \in Alnum
            /\ \E j \in (i+1)..Len(l) : l[j] \in Alnum})
\* the positions of the kept characters in the input
KeptPos(s) ==
    SelectSeq([i \in 1..Len(s) |-> i], LAMBDA i : Lower(s)[i] \in Alnum)
Underscores(s) == Len(SelectSeq(s, LAMBDA c : c = "_"))

\* C10: the result holds only [a-z0-9_], has no leading, trailing or doubled
\* underscore; its other characters are the kept characters of the lowercased
\* input in order, and it has exactly one underscore for each run of other
\* characters that lies between two kept characters.
C10_Shape ==
    pcN # "start" /\ pcN # "idle" =>
        /\ \A i \in 1..Len(nombre1) : nombre1[i] \in Alnum \cup {"_"}
        /\ nombre1 # <<>> => nombre1[1] # "_" /\ nombre1[Len(nombre1)] # "_"
        /\ \A i \in 1..(Len(nombre1) - 1) :
              ~(nombre1[i] = "_" /\ nombre1[i+1] = "_")
        /\ SelectSeq(nombre1, LAMBDA c : c # "_") = KeptChars(columna)
        /\ Underscores(nombre1) = InnerRuns(columna)
        /\ \A i \in 1..Len(nombre1) :
              nombre1[i] = "_" =>
                  LET k == Len(SelectSeq(SubSeq(nombre1, 1, i),
                                         LAMBDA c : c # "_"))
                  IN  KeptPos(columna)[k + 1] > KeptPos(columna)[k] + 1

\* C10 witness: an input with an upper-case letter and a run of two
\* characters outside [a-z0-9] between two kept characters.
C10_Witness ==
    /\ pcN = "once"
    /\ columna = <<"B", " ", "_", "7">>
    /\ nombre1 = <<"b", "_", "7">>

(***************************************************************************)
(* Specification SpecClean: limpiar_datos called on its own, on tables of   *)
(* at most MaxRows rows whose cells may be unhashable.                     *)
(***************************************************************************)
CodRaw == <<"C","O","D","_","D","P","T","O","_","O">>
CodDptoO == <<"c","o","d","_","d","p","t","o","_","o">>
NombreRaw == <<"N","o","m","b","r","e">>
NombreCol == <<"n","o","m","b","r","e">>
FechaRaw == <<"F","e","c","h","a"," ","R","e","p","o","r","t","e">>
Ana == <<"a","n","a">>
Mal == <<"m","a","l">>

CleanInputs ==
    LET codRows == {<<Num(76), Txt(Ana)>>, <<Num(5), Txt(Ana)>>,
                    <<NaN, NaN>>, <<Num(76), Lista>>}
        fechaRows == {<<Txt(Ana), Txt(Fecha2021)>>, <<NaN, Txt(Mal)>>,
                      <<Lista, Txt(Fecha2021)>>}
    IN  {[columns |-> h, rows |-> r] :
            h \in {<<CodRaw, NombreRaw>>, <<CodDptoO, NombreCol>>},
            r \in SeqsUpTo(codRows, MaxRows)}
        \cup {[columns |-> <<NombreRaw, FechaRaw>>, rows |-> r] :
                r \in SeqsUpTo(fechaRows, MaxRows)}

CleanInit ==
    /\ dfEntrada \in CleanInputs
    /\ dfLlamador = dfEntrada
    /\ dfRetorno = NoDF
    /\ errorL = FALSE
    /\ escapaL = FALSE
    /\ pcL = "start"

\* the call df2 = limpiar_datos(df): the except branch catches every
\* Exception, so none leaves the function
LimpiarDatos ==
    /\ pcL = "start"
    /\ \E r \in {limpiar_datos(dfLlamador)} :
           /\ dfLlamador' = r.llamador
           /\ dfRetorno' = r.retorno
           /\ errorL' = r.error
    /\ escapaL' = FALSE
    /\ pcL' = "done"
    /\ UNCHANGED dfEntrada

CleanNext == LimpiarDatos /\ UNCHANGED <<normVars, mergeVars, convVars>>

InitClean == CleanInit /\ NormIdle /\ MergeIdle /\ ConvIdle
SpecClean == InitClean /\ [][CleanNext]_vars

\* C7: limpiar_datos never raises, and when an internal step fails the
\* DataFrame returned and the caller's DataFrame both have the columns and
\* rows of the DataFrame passed in.
C7_ReturnsUnmodified ==
    pcL = "done" =>
        /\ ~escapaL
        /\ errorL => dfRetorno = dfEntrada /\ dfLlamador = dfEntrada

(***************************************************************************)
(* combinar_y_limpiar_archivos_csv and the functions it calls.             *)
(***************************************************************************)
DatosPfx == <<"D","a","t","o","s","_">>
CsvSfx == <<".","c","s","v">>
Datos2020 == DatosPfx \o <<"2","0","2","0">> \o CsvSfx
Datos2021Export ==
    DatosPfx \o <<"2","0","2","1","_","e","x","p","o","r","t">> \o CsvSfx
DatosExport == DatosPfx \o <<"e","x","p","o","r","t">> \o CsvSfx
Otros == <<"o","t","r","o","s">> \o CsvSfx
AnioDatos == <<"a","ñ","o","_","d","a","t","o","s">>
ArchivoOrigen == <<"a","r","c","h","i","v","o","_","o","r","i","g","e","n">>
RegionCol == <<"r","e","g","i","o","n">>
Desconocido == <<"D","e","s","c","o","n","o","c","i","d","o">>
ValleDelCauca ==
    <<"V","a","l","l","e"," ","d","e","l"," ","C","a","u","c","a">>
CodValle == 76

\* a plausible slip: the pattern "*.csv"
GlobDatos_any_csv(name) ==
    /\ Len(name) >= Len(CsvSfx)
    /\ SubSeq(name, Len(name) - Len(CsvSfx) + 1, Len(name)) = CsvSfx

\* Path(directorio).glob("Datos_*.csv") accepts this file name
GlobDatos(name) ==
    /\ Len(name) >= Len(DatosPfx) + Len(CsvSfx)
    /\ SubSeq(name, 1, Len(DatosPfx)) = DatosPfx
    /\ SubSeq(name, Len(name) - Len(CsvSfx) + 1, Len(name)) = CsvSfx

\* re.search(r'Datos_(\d{4})', name), scanning from position i; then
\* match.group(1) if match else 'Desconocido'
RECURSIVE BuscarAnio(_, _)
BuscarAnio(name, i) ==
    IF i + Len(DatosPfx) + 3 > Len(name) THEN Desconocido
    ELSE IF /\ SubSeq(name, i, i + Len(DatosPfx) - 1) = DatosPfx
            /\ \A h \in (i + Len(DatosPfx))..(i + Len(DatosPfx) + 3) :
                  name[h] \in Digits
         THEN SubSeq(name, i + Len(DatosPfx), i + Len(DatosPfx) + 3)
         ELSE BuscarAnio(name, i + 1)

\* a plausible slip: the pattern 'Datos_(.{4})', any four characters
ExtraerAnio_any_four(name) ==
    IF Len(name) >= Len(DatosPfx) + 4
    THEN SubSeq(name, Len(DatosPfx) + 1, Len(DatosPfx) + 4)
    ELSE Desconocido

ExtraerAnio(name) == BuscarAnio(name, 1)

\* segmentar_valle_cauca(df): [df |-> the DataFrame returned, error |->
\* whether the except branch ran].  df['cod_dpto_o'] raises KeyError
\* when the column is absent.
segmentar_valle_cauca(df) ==
    IF ~HasColumn(df, CodDptoO) THEN [df |-> df, error |-> TRUE]
    ELSE LET j == ColIndex(df, CodDptoO)
             filtrado == [df EXCEPT !.rows = SelectSeq(df.rows,
                 LAMBDA r : r[j].k = "num" /\ r[j].n = CodValle)]
         IN  [df |-> AsignarColumna(filtrado, RegionCol, Txt(ValleDelCauca)),
              error |-> FALSE]

\* the columns of pd.concat(dfs) from the n-th frame on: the union, in
\* order of first appearance
RECURSIVE ConcatColumnsFrom(_, _, _)
ConcatColumnsFrom(frames, n, cols) ==
    IF n > Len(frames) THEN cols
    ELSE ConcatColumnsFrom(frames, n + 1,
             cols \o SelectSeq(frames[n].columns,
                        LAMBDA c : \A h \in 1..Len(cols) : cols[h] # c))
ConcatColumns(frames) == ConcatColumnsFrom(frames, 1, <<>>)

\* a row of df laid out on the columns cols, NaN where df has no such column
Alinear(df, row, cols) ==
    [j \in 1..Len(cols) |->
        IF HasColumn(df, cols[j]) THEN row[ColIndex(df, cols[j])] ELSE NaN]

RECURSIVE ConcatRowsFrom(_, _, _, _)
ConcatRowsFrom(frames, n, cols, rows) ==
    IF n > Len(frames) THEN rows
    ELSE ConcatRowsFrom(frames, n + 1, cols,
             rows \o [i \in 1..Len(frames[n].rows) |->
                         Alinear(frames[n], frames[n].rows[i], cols)])

ConcatOn(frames, cols) ==
    [columns |-> cols, rows |-> ConcatRowsFrom(frames, 1, cols, <<>>)]

\* pd.concat(dfs, ignore_index=True)
Concat(frames) == ConcatOn(frames, ConcatColumns(frames))

\* the number of cells of vals equal to v
Veces(vals, v) == Cardinality({i \in 1..Len(vals) : vals[i] = v})

\* the counts of the values of present at the indices first, most frequent
\* first, equal counts in order of first appearance
ContarValores(present, first) ==
    LET Count(h) == Veces(present, present[first[h]])
        Rank(h) == 1 + Cardinality({g \in 1..Len(first) : Count(g) > Count(h)})
                     + Cardinality({g \in 1..(h - 1) : Count(g) = Count(h)})
    IN  [r \in 1..Len(first) |->
            LET h == CHOOSE h \in 1..Len(first) : Rank(h) = r
            IN  [valor |-> present[first[h]], n |-> Count(h)]]

SinNulos(vals) == SelectSeq(vals, LAMBDA c : ~IsNull(c))

\* Series.value_counts(): the distinct non-null values with their counts
ValueCounts(vals) ==
    ContarValores(SinNulos(vals), DropDuplicates(SinNulos(vals)))

NoReporte == [total |-> 0, columnas |-> 0, por_anio |-> <<>>, lista |-> <<>>]

\* generar_reporte_estadisticas(df, directorio, prefijo): the file it writes
generar_reporte_estadisticas(df, prefijo) ==
    [ruta |-> prefijo \o "reporte_estadisticas_<ts>.txt",
     df |-> NoDF,
     reporte |->
        [total |-> Len(df.rows),
         columnas |-> Len(df.columns),
         por_anio |->
            IF HasColumn(df, AnioDatos)
            THEN ValueCounts([i \in 1..Len(df.rows) |->
                                 df.rows[i][ColIndex(df, AnioDatos)]])
            ELSE <<>>,
         lista |-> df.columns]]

\* DataFrame.to_csv(ruta): the file it writes
ToCsv(df, ruta) == [ruta |-> ruta, df |-> df, reporte |-> NoReporte]

(***************************************************************************)
(* Specification SpecMerge: one call of combinar_y_limpiar_archivos_csv on *)
(* a directory of at most MaxFiles files of at most MaxRows rows each.     *)
(* The tables are what pd.read_csv returns; a file that pd.read_csv        *)
(* rejects is not legible.  No two labels of a table normalise to the same *)
(* name, and writes to the file system succeed.                            *)
(***************************************************************************)
Encabezado(name) ==
    CASE name = Datos2020 -> <<CodRaw, NombreRaw>>
      [] name = Datos2021Export -> <<CodRaw, FechaRaw>>
      [] name = DatosExport -> <<NombreRaw>>
      [] OTHER -> <<CodRaw>>
Filas(name) ==
    CASE name = Datos2020 -> {<<Num(76), Txt(Ana)>>}
      [] name = Datos2021Export -> {<<Num(76), Txt(Fecha2021)>>, <<NaN, Txt(Mal)>>}
      [] name = DatosExport -> {<<Txt(Ana)>>, <<NaN>>}
      [] OTHER -> {}
NombresArchivo == {Datos2020, Datos2021Export, DatosExport, Otros}
Variantes(nm) ==
    {[name |-> nm, legible |-> TRUE,
      df |-> [columns |-> Encabezado(nm), rows |-> r]] :
        r \in SeqsUpTo(Filas(nm), MaxRows)}
    \cup (IF nm = Otros THEN {}
          ELSE {[name |-> nm, legible |-> FALSE, df |-> NoDF]})
\* the directories: up to MaxFiles files with different names
Directorios ==
    LET todas == UNION {Variantes(nm) : nm \in NombresArchivo}
    IN  {d \in UNION {[1..n -> todas] : n \in 0..MaxFiles} :
            \A i, j \in 1..Len(d) : i # j => d[i].name # d[j].name}

SalidaDada == "resultado.csv"

MergeInit ==
    /\ directorio \in Directorios
    /\ nombre_archivo_salida \in {Ninguno, SalidaDada}
    /\ archivos_csv = <<>>
    /\ idx = 0
    /\ dfs = <<>>
    /\ df_combinado = NoDF
    /\ df_valle = NoDF
    /\ timestamp = SinAsignar
    /\ escritos = <<>>
    /\ registro = <<>>
    /\ escapaM = FALSE
    /\ pcM = "start"

\* lines 101-107: the glob and the early return
Descubrir ==
    /\ pcM = "start"
    /\ archivos_csv' = SelectSeq(directorio, LAMBDA f : GlobDatos(f.name))
    /\ IF archivos_csv' = <<>>
       THEN /\ registro' = Append(registro, "WARNING No se encontraron archivos CSV")
            /\ pcM' = "done"
            /\ idx' = idx
       ELSE /\ registro' = Append(registro, "INFO Se encontraron archivos CSV")
            /\ pcM' = "loop"
            /\ idx' = 1
    /\ UNCHANGED <<directorio, nombre_archivo_salida, dfs, df_combinado,
                   df_valle, timestamp, escritos, escapaM>>

\* lines 113-134: one iteration of the loop over archivos_csv
ProcesarArchivo ==
    /\ pcM = "loop"
    /\ idx <= Len(archivos_csv)
    /\ \E f \in {archivos_csv[idx]} :
       \E r \in {limpiar_datos(
                    AsignarColumna(
                        AsignarColumna(f.df, AnioDatos, Txt(ExtraerAnio(f.name))),
                        ArchivoOrigen, Txt(f.name)))} :
           IF f.legible
           THEN /\ dfs' = Append(dfs, r.retorno)
                /\ registro' = registro \o <<"INFO Leyendo archivo">>
                     \o (IF r.error THEN <<"ERROR Error en la limpieza de datos">>
                         ELSE IF r.eliminadas > 0
                              THEN <<"INFO Se eliminaron filas duplicadas">>
                              ELSE <<>>)
                     \o <<"INFO procesado correctamente">>
           ELSE /\ dfs' = dfs
                /\ registro' = registro \o <<"INFO Leyendo archivo",
                                             "ERROR Error al procesar">>
    /\ idx' = idx + 1
    /\ UNCHANGED <<directorio, nombre_archivo_salida, archivos_csv,
                   df_combinado, df_valle, timestamp, escritos, escapaM, pcM>>

RutaCombinado(salida) ==
    IF salida = Ninguno THEN "datos_combinados_limpios_<ts>.csv" ELSE salida
RutaValle == "datos_valle_cauca_<ts>.csv"

\* lines 136-150: the check of dfs, the concatenation, the output name and
\* the write of the merged file
Combinar ==
    /\ pcM = "loop"
    /\ idx > Len(archivos_csv)
    /\ IF dfs = <<>>
       THEN /\ registro' = Append(registro, "ERROR No se pudo procesar ningun archivo CSV")
            /\ pcM' = "done"
            /\ UNCHANGED <<df_combinado, timestamp, escritos>>
       ELSE /\ df_combinado' = Concat(dfs)
            /\ timestamp' = IF nombre_archivo_salida = Ninguno THEN "<ts>"
                            ELSE timestamp
            /\ escritos' = Append(escritos,
                   ToCsv(df_combinado', RutaCombinado(nombre_archivo_salida)))
            /\ pcM' = "valle"
            /\ UNCHANGED registro
    /\ UNCHANGED <<directorio, nombre_archivo_salida, archivos_csv, idx, dfs,
                   df_valle, escapaM>>

\* lines 152-155 and 166-167: the region subset and its file.  Reading the
\* local timestamp when it was never assigned raises UnboundLocalError,
\* which the outer except logs.
SegmentarYGuardar ==
    /\ pcM = "valle"
    /\ \E r \in {segmentar_valle_cauca(df_combinado)} :
       \E linea \in {IF r.error
                      THEN "ERROR Error al segmentar datos del Valle del Cauca"
                      ELSE "INFO Se encontraron registros para el Valle del Cauca"} :
           /\ df_valle' = r.df
           /\ IF timestamp = SinAsignar
              THEN /\ registro' = registro \o <<linea, "ERROR Error general en el proceso">>
                   /\ escritos' = escritos
                   /\ pcM' = "done"
              ELSE /\ registro' = Append(registro, linea)
                   /\ escritos' = Append(escritos, ToCsv(r.df, RutaValle))
                   /\ pcM' = "reportes"
    /\ UNCHANGED <<directorio, nombre_archivo_salida, archivos_csv, idx, dfs,
                   df_combinado, timestamp, escapaM>>

\* lines 157-164: the two reports and the closing log lines
GenerarReportes ==
    /\ pcM = "reportes"
    /\ escritos' = escritos \o
           <<generar_reporte_estadisticas(df_combinado, ""),
             generar_reporte_estadisticas(df_valle, "valle_cauca_")>>
    /\ registro' = registro \o
           <<"INFO Reporte de estadisticas generado",
             "INFO Reporte de estadisticas generado",
             "INFO Archivos combinados y limpios exitosamente">>
    /\ pcM' = "done"
    /\ UNCHANGED <<directorio, nombre_archivo_salida, archivos_csv, idx, dfs,
                   df_combinado, df_valle, timestamp, escapaM>>

MergeNext ==
    \/ Descubrir /\ UNCHANGED <<normVars, cleanVars, convVars>>
    \/ ProcesarArchivo /\ UNCHANGED <<normVars, cleanVars, convVars>>
    \/ Combinar /\ UNCHANGED <<normVars, cleanVars, convVars>>
    \/ SegmentarYGuardar /\ UNCHANGED <<normVars, cleanVars, convVars>>
    \/ GenerarReportes /\ UNCHANGED <<normVars, cleanVars, convVars>>

InitMerge == MergeInit /\ NormIdle /\ CleanIdle /\ ConvIdle
SpecMerge == InitMerge /\ [][MergeNext]_vars

\* the files of the directory that the call reads: those named Datos_*.csv
\* that pd.read_csv accepts, in the order of discovery
NombresDatos == {Datos2020, Datos2021Export, DatosExport}
Leidos == SelectSeq(directorio, LAMBDA f : f.name \in NombresDatos /\ f.legible)
Rutas == [i \in 1..Len(escritos) |-> escritos[i].ruta]

\* C1: when at least one matching file was read, the call has written the
\* merged file, the region file and the two reports, in that order, by the
\* time it returns, whether or not an output name was given.
C1_FourOutputs ==
    pcM = "done" /\ Leidos # <<>> =>
        Rutas = <<RutaCombinado(nombre_archivo_salida), RutaValle,
                  "reporte_estadisticas_<ts>.txt",
                  "valle_cauca_reporte_estadisticas_<ts>.txt">>

\* the merged dataset exists once the merged file has been written
Combinado == pcM \in {"valle", "reportes", "done"} /\ escritos # <<>>

\* C2: every row written to the datos_valle_cauca file has department code
\* 76 and the region label 'Valle del Cauca'.
C2_RegionOnly76 ==
    \A i \in 1..Len(escritos) :
        escritos[i].ruta = RutaValle =>
            LET d == escritos[i].df
            IN  \A h \in 1..Len(d.rows) :
                    /\ HasColumn(d, CodDptoO)
                    /\ HasColumn(d, RegionCol)
                    /\ d.rows[h][ColIndex(d, CodDptoO)] = Num(76)
                    /\ d.rows[h][ColIndex(d, RegionCol)] = Txt(ValleDelCauca)

\* the year the file name carries, by cases
AnioEsperado(name) ==
    CASE name = Datos2020 -> <<"2","0","2","0">>
      [] name = Datos2021Export -> <<"2","0","2","1">>
      [] OTHER -> Desconocido

\* the number of distinct rows of a file as read
Tam(f) == Cardinality({f.df.rows[h] : h \in 1..Len(f.df.rows)})
\* the number of merged rows that come before the rows of the n-th file read
Desde(n) ==
    LET F[h \in 1..(Len(Leidos) + 1)] ==
            IF h = 1 THEN 0 ELSE F[h - 1] + Tam(Leidos[h - 1])
    IN  F[n]
\* the file whose block holds the i-th merged row
ArchivoDeFila(i) ==
    Leidos[CHOOSE n \in 1..Len(Leidos) :
               Desde(n) < i /\ i <= Desde(n) + Tam(Leidos[n])]
\* the rows that carry a year in the merged dataset
FilasDeAnio(y) ==
    Cardinality({i \in 1..Len(df_combinado.rows) :
                    AnioEsperado(ArchivoDeFila(i).name) = y})

\* C3: the report of the merged dataset lists every source year with the
\* number of rows that carry it, most frequent first, and the counts add up
\* to the total it reports.
C3_ReportPerYear ==
    \A i \in 1..Len(escritos) :
        escritos[i].ruta = "reporte_estadisticas_<ts>.txt" =>
            LET rep == escritos[i].reporte
                Suma[h \in 0..Len(rep.por_anio)] ==
                    IF h = 0 THEN 0 ELSE Suma[h - 1] + rep.por_anio[h].n
            IN  /\ rep.total = Len(df_combinado.rows)
                /\ \A h \in 1..Len(df_combinado.rows) :
                      LET y == AnioEsperado(ArchivoDeFila(h).name)
                      IN  \E e \in 1..Len(rep.por_anio) :
                              /\ rep.por_anio[e].valor = Txt(y)
                              /\ rep.por_anio[e].n = FilasDeAnio(y)
                /\ \A e \in 1..(Len(rep.por_anio) - 1) :
                      rep.por_anio[e].n >= rep.por_anio[e + 1].n
                /\ Suma[Len(rep.por_anio)] = rep.total

\* the position in rows of the k-th row that has no equal row before it
PrimeraAparicion(rows, k) ==
    LET primera(p) == \A q \in 1..(p - 1) : rows[q] # rows[p]
    IN  CHOOSE p \in 1..Len(rows) :
            /\ primera(p)
            /\ Cardinality({q \in 1..p : primera(q)}) = k

\* what cleaning makes of the cell c of column j of the file f: a date
\* column is parsed, a missing number becomes 0, a missing text 'N/A'
CeldaEsperada(f, j, c) ==
    LET numerica == \A h \in 1..Len(f.df.rows) :
                        f.df.rows[h][j].k \in {"num", "nan"}
    IN  IF f.df.columns[j] = FechaRaw
        THEN (IF c = Txt(Fecha2021)
              THEN [k |-> "date", n |-> 0, s |-> Fecha2021] ELSE NaT)
        ELSE IF c.k # "nan" THEN c
        ELSE IF numerica THEN Num(0) ELSE Txt(NATxt)

\* the name a raw label has in the merged dataset, by cases
EtiquetaEsperada(label) ==
    CASE label = CodRaw -> CodDptoO
      [] label = NombreRaw -> NombreCol
      [] label = FechaRaw -> <<"f","e","c","h","a","_","r","e","p","o","r","t","e">>
      [] OTHER -> label

ADatos == <<"a","_","o","_","d","a","t","o","s">>

\* C4: the merged rows are, file after file in discovery order, the rows of
\* each file that was read, without the rows equal to an earlier row of the
\* same file, in their order and cleaned; a file that could not be read
\* contributes nothing and does not stop the files after it.
C4_ConcatInOrder ==
    Combinado =>
        /\ Len(df_combinado.rows) = Desde(Len(Leidos) + 1)
        /\ \A i \in 1..Len(df_combinado.rows) :
              LET f == ArchivoDeFila(i)
                  n == CHOOSE n \in 1..Len(Leidos) : Leidos[n] = f
                  raw == f.df.rows[PrimeraAparicion(f.df.rows, i - Desde(n))]
                  propias == {EtiquetaEsperada(f.df.columns[j]) :
                                 j \in 1..Len(f.df.columns)}
                                 \cup {ADatos, ArchivoOrigen}
              IN  /\ \A j \in 1..Len(f.df.columns) :
                        LET c == ColIndex(df_combinado,
                                          EtiquetaEsperada(f.df.columns[j]))
                        IN  /\ c # 0
                            /\ df_combinado.rows[i][c] =
                                   CeldaEsperada(f, j, raw[j])
                  /\ \A c \in 1..Len(df_combinado.columns) :
                        df_combinado.columns[c] \notin propias =>
                            df_combinado.rows[i][c] = NaN

\* C4 witness: a file that failed, then a file read with a repeated row.
C4_Witness ==
    /\ pcM = "done"
    /\ Len(archivos_csv) = 2
    /\ ~archivos_csv[1].legible
    /\ archivos_csv[2].legible
    /\ Len(archivos_csv[2].df.rows) = 2
    /\ Len(df_combinado.rows) = 1

\* C5: when no file matches, or no matching file can be read, the call
\* writes no file, logs the failure as its last line and returns normally.
C5_NoOutput ==
    Leidos = <<>> =>
        /\ escritos = <<>>
        /\ ~escapaM
        /\ pcM = "done" =>
              /\ registro # <<>>
              /\ registro[Len(registro)] \in
                    {"WARNING No se encontraron archivos CSV",
                     "ERROR No se pudo procesar ningun archivo CSV"}

\* C5 witness: a directory with a file of another name and a matching file
\* that cannot be read.
C5_Witness ==
    /\ pcM = "done"
    /\ Len(directorio) = 2
    /\ Len(archivos_csv) = 1
    /\ Leidos = <<>>
    /\ escritos = <<>>

\* C6: every merged row carries the name of the file it was read from and
\* the four digits after 'Datos_' in that name, or 'Desconocido'.
C6_Provenance ==
    Combinado =>
        /\ HasColumn(df_combinado, ADatos)
        /\ HasColumn(df_combinado, ArchivoOrigen)
        /\ \A i \in 1..Len(df_combinado.rows) :
              LET f == ArchivoDeFila(i)
                  fila == df_combinado.rows[i]
              IN  /\ fila[ColIndex(df_combinado, ArchivoOrigen)] = Txt(f.name)
                  /\ fila[ColIndex(df_combinado, ADatos)] =
                         Txt(AnioEsperado(f.name))

\* C6 witness: a merged dataset with a row of a file with a year and a row
\* of a file without one.
C6_Witness ==
    /\ pcM = "done"
    /\ Len(Leidos) = 2
    /\ Leidos[1].name = DatosExport
    /\ Leidos[2].name = Datos2021Export
    /\ Len(df_combinado.rows) >= 2
    /\ Leidos[1].df.rows # <<>>
    /\ Leidos[2].df.rows # <<>>

(***************************************************************************)
(* The converter: convertir_excel_a_csv and procesar_directorio.           *)
(***************************************************************************)
\* the position of the last dot of a file name that starts a suffix, 0 when
\* there is none (pathlib ignores a dot that opens the name)
UltimoPunto(name) ==
    LET dots == {i \in 2..Len(name) : name[i] = "."}
    IN  IF dots = {} THEN 0
        ELSE CHOOSE i \in dots : \A h \in dots : h <= i
\* Path(name).stem
Stem(name) ==
    IF UltimoPunto(name) = 0 THEN name
    ELSE SubSeq(name, 1, UltimoPunto(name) - 1)
\* Path(name).suffix
Suffix(name) ==
    IF UltimoPunto(name) = 0 THEN <<>>
    ELSE SubSeq(name, UltimoPunto(name), Len(name))

XlsSfx == <<".","x","l","s">>
\* Path(directorio).glob("*.xls*") accepts this file name
GlobExcel(name) ==
    \E i \in 1..(Len(name) - Len(XlsSfx) + 1) :
        SubSeq(name, i, i + Len(XlsSfx) - 1) = XlsSfx

\* convertir_excel_a_csv(ruta_archivo) for the file f of the directory:
\* [ok |-> the value returned, sistema |-> the files afterwards].  The
\* engine is chosen by the suffix: xlrd reads only the legacy format,
\* openpyxl only the modern one; any other content raises.  ruta_csv has no
\* directory part, so the file is created in the working directory.
convertir_excel_a_csv(f, fs, wd) ==
    LET ruta_csv == Stem(f.name) \o CsvSfx
        motor == IF Lower(Suffix(f.name)) = XlsSfx THEN "xlrd" ELSE "openpyxl"
        leido == \/ motor = "xlrd" /\ f.formato = "xls"
                 \/ motor = "openpyxl" /\ f.formato = "xlsx"
    IN  IF leido
        THEN [ok |-> TRUE,
              sistema |-> {o \in fs : ~(o.dir = wd /\ o.nombre = ruta_csv)}
                  \cup {[dir |-> wd, nombre |-> ruta_csv, datos |-> f.name]}]
        ELSE [ok |-> FALSE, sistema |-> fs]

(***************************************************************************)
(* Specification SpecConv: one call of procesar_directorio on a directory  *)
(* of at most MaxExcel files, which is or is not the working directory.    *)
(***************************************************************************)
AXls == <<"a">> \o XlsSfx
AXlsx == <<"a">> \o XlsSfx \o <<"x">>
BXlsx == <<"b">> \o XlsSfx \o <<"x">>
NotasCsv == <<"n","o","t","a","s">> \o CsvSfx
DirectoriosExcel ==
    LET variantes == {[name |-> nm, formato |-> fm] :
            nm \in {AXls, AXlsx, BXlsx, NotasCsv},
            fm \in {"xls", "xlsx", "corrupto"}}
    IN  {d \in SeqsUpTo(variantes, MaxExcel) :
            \A i, j \in 1..Len(d) : i # j => d[i].name # d[j].name}

ConvInit ==
    /\ dirExcel \in {"/trabajo", "/datos"}
    /\ cwd = "/trabajo"
    /\ dependencias \in BOOLEAN
    /\ archivos_excel \in DirectoriosExcel
    /\ idxX = 0
    /\ archivos_procesados = 0
    /\ archivos_fallidos = 0
    /\ retornos = <<>>
    /\ sistema = {}
    /\ pcX = "start"

\* lines 69-82: the dependency check, the glob and the two early returns;
\* archivos_excel holds the directory listing before and the glob's result
\* after
BuscarExcel ==
    /\ pcX = "start"
    /\ IF ~dependencias THEN pcX' = "done" /\ UNCHANGED <<archivos_excel, idxX>>
       ELSE /\ archivos_excel' =
                  SelectSeq(archivos_excel, LAMBDA f : GlobExcel(f.name))
            /\ IF archivos_excel' = <<>> THEN pcX' = "done" /\ idxX' = idxX
               ELSE pcX' = "loop" /\ idxX' = 1
    /\ UNCHANGED <<dirExcel, cwd, dependencias, archivos_procesados,
                   archivos_fallidos, retornos, sistema>>

\* lines 84-88: one iteration of the loop
Convertir ==
    /\ pcX = "loop"
    /\ idxX <= Len(archivos_excel)
    /\ \E r \in {convertir_excel_a_csv(archivos_excel[idxX], sistema, cwd)} :
           /\ sistema' = r.sistema
           /\ retornos' = Append(retornos, r.ok)
           /\ archivos_procesados' = archivos_procesados + (IF r.ok THEN 1 ELSE 0)
           /\ archivos_fallidos' = archivos_fallidos + (IF r.ok THEN 0 ELSE 1)
    /\ idxX' = idxX + 1
    /\ UNCHANGED <<dirExcel, cwd, dependencias, archivos_excel, pcX>>

\* line 90: the closing log line
TerminarExcel ==
    /\ pcX = "loop"
    /\ idxX > Len(archivos_excel)
    /\ pcX' = "done"
    /\ UNCHANGED <<dirExcel, cwd, dependencias, archivos_excel, idxX,
                   archivos_procesados, archivos_fallidos, retornos, sistema>>

ConvNext ==
    \/ BuscarExcel /\ UNCHANGED <<normVars, cleanVars, mergeVars>>
    \/ Convertir /\ UNCHANGED <<normVars, cleanVars, mergeVars>>
    \/ TerminarExcel /\ UNCHANGED <<normVars, cleanVars, mergeVars>>

InitConv == ConvInit /\ NormIdle /\ CleanIdle /\ MergeIdle
SpecConv == InitConv /\ [][ConvNext]_vars

\* the name of the output of a spreadsheet, by cases
CsvEsperado(name) ==
    IF name = BXlsx THEN <<"b">> \o CsvSfx ELSE <<"a">> \o CsvSfx

\* C8: after procesar_directorio(dir), each spreadsheet whose conversion
\* returned true has its own output, named after it and placed in dir,
\* holding its data, and there are as many outputs as successes.
C8_OneOutputPerSuccess ==
    pcX = "done" =>
        /\ \A i \in 1..Len(retornos) :
              retornos[i] =>
                  [dir |-> dirExcel, nombre |-> CsvEsperado(archivos_excel[i].name),
                   datos |-> archivos_excel[i].name] \in sistema
        /\ Cardinality(sistema) = archivos_procesados

====
